---- MODULE Spec2Model ----
(***************************************************************************)
(* The work-dispatch engine of src/src/client.rs: Client::work (resolve,   *)
(* connect, send with timeout race, retry), the four dispatch entry points *)
(* work, work_with_qps, work_until and work_until_with_qps, their pacer    *)
(* task and their workers, and the result sink report_tx.                  *)
(*                                                                         *)
(* Time is a discrete monotonic clock `now` (std::time::Instant::now()).   *)
(* The workers of one dispatch are the futures of one join_all, so they    *)
(* run on one thread: a worker that is in synchronous code, or blocked in  *)
(* the blocking rx.recv(), keeps every other worker from running.  The     *)
(* pacer is a task of its own (tokio::spawn).                              *)
(***************************************************************************)
EXTENDS Integers, Sequences, FiniteSets, TLC

\* ---------------------------------------------------------------- bounds
MaxWorkers == 1      \* n_workers is drawn from 0..MaxWorkers
MaxTasks == 2        \* n_tasks is drawn from 0..MaxTasks
MaxQps == 1          \* qps is drawn from 0..MaxQps
MaxTime == 2         \* the clock stops at MaxTime
MaxTimeout == 1      \* a configured timeout is drawn from 1..MaxTimeout
MaxCalls == 1        \* work() calls a work_until dispatch may start
MaxTokens == 1       \* tokens the pacer of work_until_with_qps may send
MaxPeers == 2        \* workers of a dispatch whose workers are looked at in pairs

\* Duration::from_secs(1), in clock ticks
Second == 1

\* Option::None of an Option<Duration> / Option<Instant>
None == -1

VARIABLES
    cfg,        \* the arguments of the dispatch and the ClientBuilder fields
    now,        \* std::time::Instant::now()
    dispatch,   \* position of the dispatch function: "running", "joined", "returned"
    queue,      \* number of unit tokens in the injector / channel
    gen,        \* the pacer task: [pc, i, start, target]
    emitted,    \* the pacer's successful tx.send(()): [n, first], how many, and when the first
    pc,         \* pc[w]: position of worker w
    client,     \* client[w]: the Client fields [send_request, resolver] (TRUE = Some)
    call,       \* call[w]: locals of Client::work [start, num_retry, attempt_at]
    outcome,    \* outcome[w]: the value w.work().await produced, not yet reported
    hist,       \* hist[w]: counters of what worker w's Client has done
    stats,      \* counters of the dispatch: [dequeued, calls, dropped]
    sent,       \* sent[w]: the end of the last RequestResult worker w sent into the sink
    report      \* report_tx: the number of entries sent into the sink

vars == <<cfg, now, dispatch, queue, gen, emitted, pc, client, call, outcome, hist, stats,
          sent, report>>

Modes == {"work", "work_with_qps", "work_until", "work_until_with_qps"}

W == 1..cfg.n_workers

\* ------------------------------------------------------------ RequestResult
\* a RequestResult built with its two instants in each other's place
RequestResultSwapped(s, e) == [ok |-> TRUE, kind |-> "ok", start |-> e, end |-> s]

\* RequestResult { start, end, status, len_bytes }, reduced to its instants
RequestResult(s, e) == [ok |-> TRUE, kind |-> "ok", start |-> s, end |-> e]

\* an anyhow::Error of one of the kinds Client::work can return
Failure(k) == [ok |-> FALSE, kind |-> k, start |-> None, end |-> None]

NoOutcome == [ok |-> FALSE, kind |-> "none", start |-> None, end |-> None]

\* RequestResult::duration
duration(r) == r.end - r.start

\* ------------------------------------------------------------ ClientBuilder
\* ClientBuilder::build: no resolver, no send channel
build == [send_request |-> FALSE, resolver |-> FALSE]

NoCall == [start |-> None, num_retry |-> 0, attempt_at |-> None]

\* what worker w's Client has done: in the work() call in progress (sends,
\* connects, resolves, had_channel: it began with a cached send channel) and
\* since it was built (called: a work() call has returned; level: Clean while
\* no step has failed, BodyFailed once a body read has failed and nothing
\* else, Failed once a resolve, connect, send, timeout or request build has)
Clean == "clean"
BodyFailed == "body failed"
Failed == "failed"

NoHist ==
    [sends |-> 0, connects |-> 0, resolves |-> 0, had_channel |-> FALSE,
     called |-> FALSE, level |-> Clean]

\* the counters of the call in progress, back at zero
EndCall(h) ==
    [h EXCEPT !.sends = 0, !.connects = 0, !.resolves = 0, !.had_channel = FALSE,
              !.called = TRUE]

\* the level of a Client at level l whose work() call returns r
Level(l, r) ==
    CASE r.ok -> l
      [] r.kind = "body" -> IF l = Clean THEN BodyFailed ELSE l
      [] OTHER -> Failed

\* ------------------------------------------------------------ scheduling
\* worker v is in synchronous code of its loop, or blocked in rx.recv():
\* it holds the thread that polls the join_all
Holding(v) == pc[v] \in {"loop", "check", "call", "deliver"}

\* the join_all can poll worker w
CanRun(w) == \A v \in W \ {w} : ~Holding(v)

\* lines 74-78: lookup_ip constructs a resolver when the slot of client
\* record c is empty
NewResolver(c) == ~c.resolver

\* a timeout that is counted from the start of the call
ExpiredSinceStart(w) ==
    /\ pc[w] = "send"
    /\ cfg.timeout # None
    /\ now >= call[w].start + cfg.timeout

\* the timeout of the select! of worker w is pending and has expired
Expired(w) ==
    /\ pc[w] = "send"
    /\ cfg.timeout # None
    /\ now >= call[w].attempt_at + cfg.timeout

\* the sender tx is alive (the pacer task has not ended)
TxAlive == gen.pc \notin {"none", "done", "panicked"}

\* the receiver rx is alive (the dispatch function has not returned)
RxAlive == dispatch # "returned"

\* ------------------------------------------------------------ the clock
\* the pacer is in synchronous code: not suspended in delay_until and not
\* blocked in tx.send on the full bounded channel
GenRunning ==
    \/ gen.pc \in {"start", "check"}
    \/ gen.pc = "send" /\ (cfg.mode = "work_until_with_qps" /\ RxAlive => queue < cfg.qps)

\* Time passes, while no worker and no pacer is between two of its suspension
\* points other than blocked in a receive or a send (synchronous code takes no
\* time).  A timer that has expired fires before the clock moves on, unless
\* the thread that would poll its worker is held by another worker.
Tick ==
    /\ now < MaxTime
    /\ \A w \in W : pc[w] \notin {"check", "call", "deliver"}
    /\ ~GenRunning
    /\ \A w \in W : Expired(w) => ~CanRun(w)
    /\ now' = now + 1
    /\ UNCHANGED <<cfg, dispatch, queue, gen, emitted, pc, client, call, outcome, hist, stats, sent, report>>

\* ------------------------------------------------------------ Client::work
\* return from Client::work with value r and counters h: the worker holds the
\* value until it has sent it into the sink
Return(w, r, h) ==
    /\ pc' = [pc EXCEPT ![w] = "deliver"]
    /\ outcome' = [outcome EXCEPT ![w] = r]
    /\ hist' = [hist EXCEPT ![w] = [h EXCEPT !.level = Level(@, r)]]

\* line 179: the send error surfaces instead of being retried
Surface(num_retry) == num_retry > 1

\* Client::request: building the request fails or not, by the configuration
request == cfg.req_ok

\* a lookup_ip that puts the resolver back before the lookup, so that it
\* stays in its slot when the lookup fails
lookup_ip_keep(c, ok) == [c EXCEPT !.resolver = TRUE]

\* Client::lookup_ip on client record c: the resolver is taken out of its slot
\* and put back only when the lookup succeeded
lookup_ip(c, ok) == [c EXCEPT !.resolver = ok]

\* top of the send loop with locals c and counters h: build the request, arm
\* the timeout (tokio::time::delay_for) and submit the request in a select!
LoopTop(w, c, h) ==
    IF request
    THEN /\ pc' = [pc EXCEPT ![w] = "send"]
         /\ call' = [call EXCEPT ![w] = [c EXCEPT !.attempt_at = now]]
         /\ hist' = [hist EXCEPT ![w] = [h EXCEPT !.sends = @ + 1]]
         /\ outcome' = outcome
    ELSE /\ call' = [call EXCEPT ![w] = c]
         /\ Return(w, Failure("request"), h)

\* w.work() is called: stamp start, take the cached send channel or start the
\* lookup
Begin(w) ==
    /\ pc[w] = "call"
    /\ CanRun(w)
    /\ LET c == [start |-> now, num_retry |-> 0, attempt_at |-> None]
           h == [hist[w] EXCEPT !.had_channel = client[w].send_request]
       IN  IF client[w].send_request
           THEN /\ client' = [client EXCEPT ![w].send_request = FALSE]
                /\ LoopTop(w, c, h)
           ELSE /\ pc' = [pc EXCEPT ![w] = "lookup1"]
                /\ call' = [call EXCEPT ![w] = c]
                /\ hist' = [hist EXCEPT ![w] = h]
                /\ UNCHANGED <<client, outcome>>
    /\ stats' = [stats EXCEPT !.calls = @ + 1]
    /\ UNCHANGED <<cfg, now, dispatch, queue, gen, emitted, sent, report>>

\* the counters h after one more lookup
Resolved(h) == [h EXCEPT !.resolves = @ + 1]

\* the counters h after one more connect
Connected(h) == [h EXCEPT !.connects = @ + 1]

\* self.lookup_ip().await succeeds (line 140 or line 184): go on to connect
LookupOk(w) ==
    /\ pc[w] \in {"lookup1", "lookup2"}
    /\ CanRun(w)
    /\ pc' = [pc EXCEPT ![w] = IF pc[w] = "lookup1" THEN "connect1" ELSE "connect2"]
    /\ client' = [client EXCEPT ![w] = lookup_ip(@, TRUE)]
    /\ hist' = [hist EXCEPT ![w] = Resolved(@)]
    /\ UNCHANGED <<cfg, now, dispatch, queue, gen, emitted, call, outcome, stats, sent, report>>

\* self.lookup_ip().await? fails: work() returns the error
LookupErr(w) ==
    /\ pc[w] \in {"lookup1", "lookup2"}
    /\ CanRun(w)
    /\ client' = [client EXCEPT ![w] = lookup_ip(@, FALSE)]
    /\ Return(w, Failure("resolve"), Resolved(hist[w]))
    /\ UNCHANGED <<cfg, now, dispatch, queue, gen, emitted, call, stats, sent, report>>

\* self.send_request(addr).await succeeds (line 143 or line 187); on the retry
\* path num_retry is incremented; then the send loop (re)starts
ConnectOk(w) ==
    /\ pc[w] \in {"connect1", "connect2"}
    /\ CanRun(w)
    /\ LET c == IF pc[w] = "connect2"
                THEN [call[w] EXCEPT !.num_retry = @ + 1]
                ELSE call[w]
       IN  LoopTop(w, c, Connected(hist[w]))
    /\ UNCHANGED <<cfg, now, dispatch, queue, gen, emitted, client, stats, sent, report>>

\* a connect that is tried again when it fails on the retry path
ConnectErrAgain(w) ==
    /\ pc[w] \in {"connect1", "connect2"}
    /\ CanRun(w)
    /\ IF pc[w] = "connect2"
       THEN /\ pc' = [pc EXCEPT ![w] = "lookup2"]
            /\ hist' = [hist EXCEPT ![w] = Connected(@)]
            /\ outcome' = outcome
       ELSE Return(w, Failure("connect"), Connected(hist[w]))
    /\ UNCHANGED <<cfg, now, dispatch, queue, gen, emitted, client, call, stats, sent, report>>

\* self.send_request(addr).await? fails: work() returns the error
ConnectErr(w) ==
    /\ pc[w] \in {"connect1", "connect2"}
    /\ CanRun(w)
    /\ Return(w, Failure("connect"), Connected(hist[w]))
    /\ UNCHANGED <<cfg, now, dispatch, queue, gen, emitted, client, call, stats, sent, report>>

\* select!: the send future wins with Ok(res); the timeout future is dropped
\* and the body stream is read
SendOk(w) ==
    /\ pc[w] = "send"
    /\ CanRun(w)
    /\ pc' = [pc EXCEPT ![w] = "body"]
    /\ UNCHANGED <<cfg, now, dispatch, queue, gen, emitted, client, call, outcome, hist, stats, sent, report>>

\* select!: the send future wins with Err(e) (lines 178-189)
SendErr(w) ==
    /\ pc[w] = "send"
    /\ CanRun(w)
    /\ LET h == [hist[w] EXCEPT !.level = Failed]
       IN  IF Surface(call[w].num_retry)
           THEN /\ Return(w, Failure("send"), h)
                /\ call' = call
           ELSE /\ call' = [call EXCEPT ![w].start = now]
                /\ pc' = [pc EXCEPT ![w] = "lookup2"]
                /\ hist' = [hist EXCEPT ![w] = h]
                /\ outcome' = outcome
    /\ UNCHANGED <<cfg, now, dispatch, queue, gen, emitted, client, stats, sent, report>>

\* a timeout branch that puts the send channel back into its slot before it
\* returns the error
TimeoutKeepChannel(w) ==
    /\ Expired(w)
    /\ CanRun(w)
    /\ client' = [client EXCEPT ![w].send_request = TRUE]
    /\ Return(w, Failure("timeout"), hist[w])
    /\ UNCHANGED <<cfg, now, dispatch, queue, gen, emitted, call, stats, sent, report>>

\* select!: the timeout future wins (lines 192-194)
Timeout(w) ==
    /\ Expired(w)
    /\ CanRun(w)
    /\ Return(w, Failure("timeout"), hist[w])
    /\ UNCHANGED <<cfg, now, dispatch, queue, gen, emitted, client, call, stats, sent, report>>

\* the body stream ends and Ok is returned without self.send_request =
\* Some(send_request): the send channel is dropped with the call
BodyOkDropChannel(w) ==
    /\ pc[w] = "body"
    /\ CanRun(w)
    /\ Return(w, RequestResult(call[w].start, now), hist[w])
    /\ UNCHANGED <<cfg, now, dispatch, queue, gen, emitted, client, call, stats, sent, report>>

\* the body stream ends: stamp end, cache the send channel, return Ok
BodyOk(w) ==
    /\ pc[w] = "body"
    /\ CanRun(w)
    /\ client' = [client EXCEPT ![w].send_request = TRUE]
    /\ Return(w, RequestResult(call[w].start, now), hist[w])
    /\ UNCHANGED <<cfg, now, dispatch, queue, gen, emitted, call, stats, sent, report>>

\* stream.next().await yields an error chunk: chunk? returns it
BodyErr(w) ==
    /\ pc[w] = "body"
    /\ CanRun(w)
    /\ Return(w, Failure("body"), hist[w])
    /\ UNCHANGED <<cfg, now, dispatch, queue, gen, emitted, client, call, stats, sent, report>>

\* ------------------------------------------------------------ the workers
\* the join_all polls worker w for the first time, in index order:
\* client_builder.build()
Start(w) ==
    /\ pc[w] = "new"
    /\ dispatch = "running"
    /\ \A v \in W : v < w => pc[v] # "new"
    /\ CanRun(w)
    /\ pc' = [pc EXCEPT ![w] = "loop"]
    /\ client' = [client EXCEPT ![w] = build]
    /\ UNCHANGED <<cfg, now, dispatch, queue, gen, emitted, call, outcome, hist, stats, sent, report>>

\* the pull of a worker that reads a token and leaves it in the queue
PullPeek(w, next) ==
    IF queue > 0
    THEN /\ queue' = queue
         /\ pc' = [pc EXCEPT ![w] = next]
         /\ stats' = [stats EXCEPT !.dequeued = @ + 1]
    ELSE /\ queue' = queue
         /\ pc' = [pc EXCEPT ![w] = "done"]
         /\ stats' = stats

\* the pull of a worker that takes a whole batch out of the queue for one
\* token of work (Injector::steal_batch in the place of Injector::steal)
PullBatch(w, next) ==
    IF queue > 0
    THEN /\ queue' = 0
         /\ pc' = [pc EXCEPT ![w] = next]
         /\ stats' = [stats EXCEPT !.dequeued = @ + 1]
    ELSE /\ queue' = queue
         /\ pc' = [pc EXCEPT ![w] = "done"]
         /\ stats' = stats

\* a token is taken out of the queue, or the loop ends: the next position of
\* worker w, and the count of tokens dequeued
Pull(w, next) ==
    IF queue > 0
    THEN /\ queue' = queue - 1
         /\ pc' = [pc EXCEPT ![w] = next]
         /\ stats' = [stats EXCEPT !.dequeued = @ + 1]
    ELSE /\ queue' = queue
         /\ pc' = [pc EXCEPT ![w] = "done"]
         /\ stats' = stats

\* work: while let Steal::Success(()) = injector.steal()
Steal(w) ==
    /\ cfg.mode = "work"
    /\ pc[w] = "loop"
    /\ CanRun(w)
    /\ Pull(w, "call")
    /\ UNCHANGED <<cfg, now, dispatch, gen, emitted, client, call, outcome, hist, sent, report>>

\* work_with_qps: while let Ok(()) = rx.recv(), a blocking receive that fails
\* once the channel is empty and tx is dropped
RecvQps(w) ==
    /\ cfg.mode = "work_with_qps"
    /\ pc[w] = "loop"
    /\ CanRun(w)
    /\ queue > 0 \/ ~TxAlive
    /\ Pull(w, "call")
    /\ UNCHANGED <<cfg, now, dispatch, gen, emitted, client, call, outcome, hist, sent, report>>

\* work_until: while std::time::Instant::now() < dead_line
Guard(w) ==
    /\ cfg.mode = "work_until"
    /\ pc[w] = "loop"
    /\ CanRun(w)
    /\ now < cfg.dead_line => stats.calls < MaxCalls
    /\ pc' = [pc EXCEPT ![w] = IF now < cfg.dead_line THEN "call" ELSE "done"]
    /\ UNCHANGED <<cfg, now, dispatch, queue, gen, emitted, client, call, outcome, hist, stats, sent, report>>

\* work_until_with_qps: while let Ok(()) = rx.recv(), a blocking receive that
\* fails once the channel is empty and tx is dropped
RecvUntil(w) ==
    /\ cfg.mode = "work_until_with_qps"
    /\ pc[w] = "loop"
    /\ CanRun(w)
    /\ queue > 0 \/ ~TxAlive
    /\ Pull(w, "check")
    /\ UNCHANGED <<cfg, now, dispatch, gen, emitted, client, call, outcome, hist, sent, report>>

\* the deadline check of the worker with >= in the place of >
CheckAtDeadline(w) ==
    /\ pc[w] = "check"
    /\ CanRun(w)
    /\ pc' = [pc EXCEPT ![w] = IF now >= cfg.dead_line THEN "done" ELSE "call"]
    /\ stats' = [stats EXCEPT !.dropped = IF now >= cfg.dead_line THEN @ + 1 ELSE @]
    /\ UNCHANGED <<cfg, now, dispatch, queue, gen, emitted, client, call, outcome, hist, sent, report>>

\* work_until_with_qps, lines 301-303: if now > dead_line { break; }
Check(w) ==
    /\ pc[w] = "check"
    /\ CanRun(w)
    /\ pc' = [pc EXCEPT ![w] = IF now > cfg.dead_line THEN "done" ELSE "call"]
    /\ stats' = [stats EXCEPT !.dropped = IF now > cfg.dead_line THEN @ + 1 ELSE @]
    /\ UNCHANGED <<cfg, now, dispatch, queue, gen, emitted, client, call, outcome, hist, sent, report>>

\* a send that passes on RequestResults only and swallows errors
send_ok_only(sink, r) == IF r.ok THEN sink + 1 ELSE sink

\* report_tx.send(r): the sink takes the entry (the receiver is held by the caller)
send(sink, r) == sink + 1

\* a worker loop that is left when work() returns an error (the error is sent
\* into the sink, then break)
DeliverOrStop(w) ==
    /\ pc[w] = "deliver"
    /\ CanRun(w)
    /\ report' = send(report, outcome[w])
    /\ sent' = [sent EXCEPT ![w] = IF outcome[w].ok THEN outcome[w].end ELSE @]
    /\ outcome' = [outcome EXCEPT ![w] = NoOutcome]
    /\ call' = [call EXCEPT ![w] = NoCall]
    /\ hist' = [hist EXCEPT ![w] = EndCall(@)]
    /\ pc' = [pc EXCEPT ![w] = IF outcome[w].ok THEN "loop" ELSE "done"]
    /\ UNCHANGED <<cfg, now, dispatch, queue, gen, emitted, client, stats>>

\* report_tx.send(w.work().await).unwrap(), then the next turn of the loop
Deliver(w) ==
    /\ pc[w] = "deliver"
    /\ CanRun(w)
    /\ report' = send(report, outcome[w])
    /\ sent' = [sent EXCEPT ![w] = IF outcome[w].ok THEN outcome[w].end ELSE @]
    /\ outcome' = [outcome EXCEPT ![w] = NoOutcome]
    /\ call' = [call EXCEPT ![w] = NoCall]
    /\ hist' = [hist EXCEPT ![w] = EndCall(@)]
    /\ pc' = [pc EXCEPT ![w] = "loop"]
    /\ UNCHANGED <<cfg, now, dispatch, queue, gen, emitted, client, stats>>

\* ------------------------------------------------------------ the pacer
\* start + i as u32 * Duration::from_secs(1) / qps as u32 (integer division of
\* the duration; the caller has ruled out qps = 0, which panics)
Schedule(start_, i, qps) == start_ + (i * Second) \div qps

\* one more token was sent at instant now
Emit(e) == [n |-> e.n + 1, first |-> IF e.n = 0 THEN now ELSE e.first]

\* work_with_qps, line 235: let start = Instant::now(), then for i in 0..n_tasks
GenStart ==
    /\ gen.pc = "start"
    /\ gen' = [gen EXCEPT !.start = now,
                          !.pc = IF cfg.n_tasks > 0 THEN "send" ELSE "done"]
    /\ UNCHANGED <<cfg, now, dispatch, queue, emitted, pc, client, call, outcome, hist, stats, sent, report>>

\* work_with_qps, lines 237-241: tx.send(()).unwrap() into the unbounded
\* channel, then the target of delay_until is computed
GenSendQps ==
    /\ cfg.mode = "work_with_qps"
    /\ gen.pc = "send"
    /\ IF ~RxAlive
       THEN /\ gen' = [gen EXCEPT !.pc = "panicked"]
            /\ UNCHANGED <<queue, emitted>>
       ELSE /\ queue' = queue + 1
            /\ emitted' = Emit(emitted)
            /\ gen' = IF cfg.qps = 0
                      THEN [gen EXCEPT !.pc = "panicked"]
                      ELSE [gen EXCEPT !.pc = "delay",
                                       !.target = Schedule(gen.start, gen.i, cfg.qps)]
    /\ UNCHANGED <<cfg, now, dispatch, pc, client, call, outcome, hist, stats, sent, report>>

\* work_with_qps: delay_until(..).await is over; next i, or the loop ends and
\* tx is dropped
GenWakeQps ==
    /\ cfg.mode = "work_with_qps"
    /\ gen.pc = "delay"
    /\ now >= gen.target
    /\ gen' = [gen EXCEPT !.i = @ + 1,
                          !.pc = IF gen.i + 1 < cfg.n_tasks THEN "send" ELSE "done"]
    /\ UNCHANGED <<cfg, now, dispatch, queue, emitted, pc, client, call, outcome, hist, stats, sent, report>>

\* work_until_with_qps, lines 284-286: if now > dead_line { break; }, for a
\* pacer that sends at most max tokens
GenCheckUpTo(max) ==
    /\ gen.pc = "check"
    /\ now <= cfg.dead_line => emitted.n < max
    /\ gen' = [gen EXCEPT !.pc = IF now > cfg.dead_line THEN "done" ELSE "send"]
    /\ UNCHANGED <<cfg, now, dispatch, queue, emitted, pc, client, call, outcome, hist, stats, sent, report>>

\* work_until_with_qps, lines 284-286: if now > dead_line { break; }
GenCheck == GenCheckUpTo(MaxTokens)

\* a tx.send(()) into an unbounded channel: it never blocks
GenSendUnbounded ==
    /\ cfg.mode = "work_until_with_qps"
    /\ gen.pc = "send"
    /\ IF ~RxAlive
       THEN /\ gen' = [gen EXCEPT !.pc = "done"]
            /\ UNCHANGED <<queue, emitted>>
       ELSE /\ queue' = queue + 1
            /\ emitted' = Emit(emitted)
            /\ gen' = [gen EXCEPT !.pc = "delay",
                                  !.target = Schedule(gen.start, gen.i, cfg.qps)]
    /\ UNCHANGED <<cfg, now, dispatch, pc, client, call, outcome, hist, stats, sent, report>>

\* work_until_with_qps, lines 287-293: tx.send(()) into the channel bounded by
\* qps blocks while the channel is full and fails once rx is dropped
GenSendUntil ==
    /\ cfg.mode = "work_until_with_qps"
    /\ gen.pc = "send"
    /\ ~RxAlive \/ queue < cfg.qps
    /\ IF ~RxAlive
       THEN /\ gen' = [gen EXCEPT !.pc = "done"]
            /\ UNCHANGED <<queue, emitted>>
       ELSE /\ queue' = queue + 1
            /\ emitted' = Emit(emitted)
            /\ gen' = [gen EXCEPT !.pc = "delay",
                                  !.target = Schedule(gen.start, gen.i, cfg.qps)]
    /\ UNCHANGED <<cfg, now, dispatch, pc, client, call, outcome, hist, stats, sent, report>>

\* work_until_with_qps: delay_until(..).await is over; next i
GenWakeUntil ==
    /\ cfg.mode = "work_until_with_qps"
    /\ gen.pc = "delay"
    /\ now >= gen.target
    /\ gen' = [gen EXCEPT !.i = @ + 1, !.pc = "check"]
    /\ UNCHANGED <<cfg, now, dispatch, queue, emitted, pc, client, call, outcome, hist, stats, sent, report>>

\* ------------------------------------------------------------ the dispatch
\* futures::future::join_all(..).await completes: every worker has left its loop
Join ==
    /\ dispatch = "running"
    /\ \A w \in W : pc[w] = "done"
    /\ dispatch' = "joined"
    /\ UNCHANGED <<cfg, now, queue, gen, emitted, pc, client, call, outcome, hist, stats, sent, report>>

\* the dispatch function returns (work_until_with_qps: after gen.await); its
\* locals, the queue and rx among them, are dropped
Finish ==
    /\ dispatch = "joined"
    /\ cfg.mode = "work_until_with_qps" => gen.pc \in {"done", "panicked"}
    /\ dispatch' = "returned"
    /\ queue' = 0
    /\ UNCHANGED <<cfg, now, gen, emitted, pc, client, call, outcome, hist, stats, sent, report>>

\* ------------------------------------------------------------ specification
Timeouts == {None} \cup (1..MaxTimeout)

Config(mode, n_tasks, n_workers, qps, dead_line, timeout, req_ok) ==
    [mode |-> mode, n_tasks |-> n_tasks, n_workers |-> n_workers, qps |-> qps,
     start |-> 0, dead_line |-> dead_line, timeout |-> timeout, req_ok |-> req_ok]

\* the arguments a caller can pass to each entry point
Configs(mode) ==
    CASE mode = "work" ->
            {Config(mode, n, m, None, None, t, r) :
                n \in 0..MaxTasks, m \in 0..MaxWorkers, t \in Timeouts, r \in BOOLEAN}
      [] mode = "work_with_qps" ->
            {Config(mode, n, m, q, None, t, r) :
                n \in 0..MaxTasks, m \in 0..MaxWorkers, q \in 0..MaxQps,
                t \in Timeouts, r \in BOOLEAN}
      [] mode = "work_until" ->
            {Config(mode, None, m, None, d, t, r) :
                m \in 0..MaxWorkers, d \in 0..(MaxTime - 1), t \in Timeouts,
                r \in BOOLEAN}
      [] mode = "work_until_with_qps" ->
            {Config(mode, None, m, q, d, t, r) :
                m \in 0..MaxWorkers, q \in 1..MaxQps, d \in 0..(MaxTime - 1),
                t \in Timeouts, r \in BOOLEAN}

\* the state when the entry point has set up its queue and spawned its pacer,
\* called with one of the arguments configs
InitOf(mode, configs) ==
    /\ cfg \in configs
    /\ now = 0
    /\ dispatch = "running"
    /\ queue = IF mode = "work" THEN cfg.n_tasks ELSE 0
    /\ gen = [pc |-> CASE mode = "work_with_qps" -> "start"
                       [] mode = "work_until_with_qps" -> "check"
                       [] OTHER -> "none",
              i |-> 0,
              start |-> IF mode = "work_until_with_qps" THEN cfg.start ELSE None,
              target |-> None]
    /\ emitted = [n |-> 0, first |-> None]
    /\ pc = [w \in W |-> "new"]
    /\ client = [w \in W |-> build]
    /\ call = [w \in W |-> NoCall]
    /\ outcome = [w \in W |-> NoOutcome]
    /\ hist = [w \in W |-> NoHist]
    /\ stats = [dequeued |-> 0, calls |-> 0, dropped |-> 0]
    /\ sent = [w \in W |-> None]
    /\ report = 0

\* the state when the entry point has set up its queue and spawned its pacer
InitMode(mode) == InitOf(mode, Configs(mode))

Init == \E mode \in Modes : InitMode(mode)

ClientNext(w) ==
    \/ Begin(w)
    \/ LookupOk(w)
    \/ LookupErr(w)
    \/ ConnectOk(w)
    \/ ConnectErr(w)
    \/ SendOk(w)
    \/ SendErr(w)
    \/ Timeout(w)
    \/ BodyOk(w)
    \/ BodyErr(w)

Next ==
    \/ Tick
    \/ GenStart
    \/ GenSendQps
    \/ GenWakeQps
    \/ GenCheck
    \/ GenSendUntil
    \/ GenWakeUntil
    \/ Join
    \/ Finish
    \/ \E w \in W :
        \/ Start(w)
        \/ Steal(w)
        \/ RecvQps(w)
        \/ Guard(w)
        \/ RecvUntil(w)
        \/ Check(w)
        \/ Deliver(w)
        \/ ClientNext(w)

Spec == Init /\ [][Next]_vars

\* one Client driven through a sequence of work() calls by the one worker of a
\* work dispatch
InitClient == InitMode("work") /\ cfg.n_workers = 1

NextClient ==
    \/ Tick
    \/ Join
    \/ Finish
    \/ \E w \in W :
        \/ Start(w)
        \/ Steal(w)
        \/ Deliver(w)
        \/ ClientNext(w)

SpecClient == InitClient /\ [][NextClient]_vars

\* the fixed-count dispatches work and work_with_qps
InitFixed == \E mode \in {"work", "work_with_qps"} : InitMode(mode)

NextFixed ==
    \/ Tick
    \/ GenStart
    \/ GenSendQps
    \/ GenWakeQps
    \/ Join
    \/ Finish
    \/ \E w \in W :
        \/ Start(w)
        \/ Steal(w)
        \/ RecvQps(w)
        \/ Deliver(w)
        \/ ClientNext(w)

SpecFixed == InitFixed /\ [][NextFixed]_vars

\* the dispatch work_until
NextUntil ==
    \/ Tick
    \/ Join
    \/ Finish
    \/ \E w \in W :
        \/ Start(w)
        \/ Guard(w)
        \/ Deliver(w)
        \/ ClientNext(w)

SpecUntil == InitMode("work_until") /\ [][NextUntil]_vars

\* the dispatch work_until_with_qps
NextUntilQps ==
    \/ Tick
    \/ GenCheck
    \/ GenSendUntil
    \/ GenWakeUntil
    \/ Join
    \/ Finish
    \/ \E w \in W :
        \/ Start(w)
        \/ RecvUntil(w)
        \/ Check(w)
        \/ Deliver(w)
        \/ ClientNext(w)

SpecUntilQps == InitMode("work_until_with_qps") /\ [][NextUntilQps]_vars

\* the dispatch work_until_with_qps against a server that answers every
\* request, with a pacer that may send one token more than the channel holds
InitBackpressure ==
    /\ InitMode("work_until_with_qps")
    /\ cfg.timeout = None
    /\ cfg.req_ok

NextBackpressure ==
    \/ Tick
    \/ GenCheckUpTo(cfg.qps + 1)
    \/ GenSendUntil
    \/ GenWakeUntil
    \/ Join
    \/ Finish
    \/ \E w \in W :
        \/ Start(w)
        \/ RecvUntil(w)
        \/ Check(w)
        \/ Deliver(w)
        \/ ClientNext(w)

SpecBackpressure == InitBackpressure /\ [][NextBackpressure]_vars

\* the dispatch work_with_qps with MaxPeers workers against a server that
\* answers every request
InitPeers ==
    InitOf("work_with_qps",
           {Config("work_with_qps", n, MaxPeers, q, None, None, TRUE) :
                n \in 1..MaxTasks, q \in 1..MaxQps})

SpecPeers == InitPeers /\ [][NextFixed]_vars

\* ------------------------------------------------------------ the claims
FixedModes == {"work", "work_with_qps"}

\* positions inside a Client::work call
InWork == {"lookup1", "connect1", "send", "body", "lookup2", "connect2"}

\* workers whose work() call has started and whose outcome is not yet in the sink
Calling == {w \in W : pc[w] \in InWork \cup {"deliver"}}

\* workers that hold a token they have pulled and have not yet used or dropped
Pulled == {w \in W : pc[w] \in {"check", "call"}}

\* C1 as claimed: in a fixed-count dispatch with n_tasks = N, whatever
\* n_workers and qps are, the sink never holds more than N entries and holds
\* exactly N when the dispatch has returned
C1_AsClaimed ==
    cfg.mode \in FixedModes =>
        /\ report <= cfg.n_tasks
        /\ dispatch = "returned" => report = cfg.n_tasks

\* the tokens a fixed-count dispatch produces: none is consumed without a
\* worker, and with qps = 0 the pacer ends after its first token
Produced ==
    CASE cfg.n_workers = 0 -> 0
      [] cfg.mode = "work_with_qps" /\ cfg.qps = 0 ->
            IF cfg.n_tasks > 0 THEN 1 ELSE 0
      [] OTHER -> cfg.n_tasks

\* C1 as amended: in a fixed-count dispatch with n_workers >= 1 and, in
\* work_with_qps, qps >= 1, the sink never holds more than N entries and
\* holds exactly N when the dispatch has returned; with n_workers = 0 it holds
\* none, and with qps = 0 at most one
C1_ExactlyN ==
    cfg.mode \in FixedModes =>
        /\ report <= Produced
        /\ Produced <= cfg.n_tasks
        /\ dispatch = "returned" => report = Produced

\* a paced fixed-count dispatch has returned with its two entries in the sink,
\* one of them a RequestResult and one an error
C1_Witness ==
    /\ cfg.mode = "work_with_qps"
    /\ cfg.qps >= 1
    /\ cfg.n_tasks = 2
    /\ dispatch = "returned"
    /\ report = 2
    /\ \E w \in W : sent[w] # None /\ hist[w].level = Failed

\* C2: one work() call makes at most two send attempts and at most two
\* connect attempts
C2_AtMostTwoAttempts ==
    \A w \in W : hist[w].sends <= 2 /\ hist[w].connects <= 2

\* C3: in work_with_qps token i is sent no earlier than start + i * (1s / qps),
\* so no earlier than i * (1s / qps) after the first token (the pacer is in
\* its delay right after it has sent token i)
C3_PacingFloor ==
    (cfg.mode = "work_with_qps" /\ gen.pc = "delay") =>
        /\ now >= Schedule(gen.start, gen.i, cfg.qps)
        /\ now - emitted.first >= Schedule(0, gen.i, cfg.qps)

\* C4: in work_until every RequestResult a worker sends into the sink has
\* start <= dead_line
C4_StartBeforeDeadline ==
    cfg.mode = "work_until" =>
        \A w \in W : (pc[w] = "deliver" /\ outcome[w].ok) =>
            outcome[w].start <= cfg.dead_line

\* C5 as claimed: in work_until_with_qps every token a worker has pulled is
\* held for a work() call or has had its work() call, and every work() call
\* started is in progress or has its entry in the sink
C5_AsClaimed ==
    cfg.mode = "work_until_with_qps" =>
        /\ stats.dequeued = stats.calls + Cardinality(Pulled)
        /\ stats.calls = report + Cardinality(Calling)

\* C5 as amended: every pulled token is held, has had its work() call or was
\* dropped by the deadline check of lines 301-303; a token is dropped only
\* after the deadline and only by a worker that then leaves its loop; every
\* work() call started is in progress or has its entry in the sink
C5_PulledOrDropped ==
    cfg.mode = "work_until_with_qps" =>
        /\ stats.dequeued = stats.calls + stats.dropped + Cardinality(Pulled)
        /\ stats.calls = report + Cardinality(Calling)
        /\ stats.dropped > 0 => now > cfg.dead_line
        /\ stats.dropped <= Cardinality({w \in W : pc[w] = "done"})

\* a token pulled before the deadline has been worked on across the deadline
\* and its RequestResult is in the sink
C5_Witness ==
    /\ cfg.mode = "work_until_with_qps"
    /\ stats.dequeued >= 1
    /\ stats.dequeued = report
    /\ \E w \in W : sent[w] # None /\ sent[w] > cfg.dead_line

\* C6: with a timeout configured, no send attempt is still waiting for its
\* response or its body when the timeout has elapsed since the attempt began
C6_TimeoutCoversResponse ==
    cfg.timeout # None =>
        \A w \in W : pc[w] \in {"send", "body"} =>
            now <= call[w].attempt_at + cfg.timeout

\* C7: every work() call started is in progress or has exactly one entry in
\* the sink, and once the join_all is over no call is in progress: the sink
\* holds as many entries as calls were started
C7_NoResultDropped ==
    /\ stats.calls = report + Cardinality(Calling)
    /\ dispatch # "running" => (Calling = {} /\ report = stats.calls)

\* a dispatch has returned with the entries of two calls in the sink, of which
\* one is an error and one a RequestResult
C7_Witness ==
    /\ dispatch = "returned"
    /\ stats.calls = 2
    /\ report = 2
    /\ \E w \in W : sent[w] # None /\ hist[w].level # Clean

\* the loop of a worker of this dispatch may end now
ExitCondition ==
    CASE cfg.mode = "work" -> queue = 0
      [] cfg.mode = "work_with_qps" -> queue = 0 /\ ~TxAlive
      [] cfg.mode = "work_until" -> now >= cfg.dead_line
      [] cfg.mode = "work_until_with_qps" ->
            now > cfg.dead_line \/ (queue = 0 /\ ~TxAlive)

\* C8: a worker leaves its loop only on the loop's own exit condition (queue
\* empty or closed, deadline passed), never because work() returned an error
C8_ErrorsKeepWorker ==
    \A w \in W : pc[w] = "done" => ExitCondition

\* a worker whose work() calls so far all returned errors has started another
\* call
C8_Witness ==
    \E w \in W :
        /\ pc[w] = "lookup1"
        /\ hist[w].called
        /\ sent[w] = None
        /\ hist[w].level # Clean

\* C9 as claimed: while every send of a Client has succeeded, the first call
\* does at most one resolve and one connect and every later call does none
C9_AsClaimed ==
    \A w \in W : hist[w].level # Failed =>
        IF hist[w].called
        THEN hist[w].resolves = 0 /\ hist[w].connects = 0
        ELSE hist[w].resolves <= 1 /\ hist[w].connects <= 1

\* C9 as amended: while every call of a Client has returned Ok at its first
\* send attempt, the first call does exactly one resolve and one connect
\* before its send, and every later call begins with the cached send channel
\* and does no resolve and no connect
C9_KeepAlive ==
    \A w \in W : hist[w].level = Clean =>
        IF hist[w].called
        THEN /\ hist[w].resolves = 0 /\ hist[w].connects = 0
             /\ pc[w] \in InWork \cup {"deliver"} => hist[w].had_channel
             /\ pc[w] \in {"loop", "call", "done"} => client[w].send_request
        ELSE /\ hist[w].resolves <= 1 /\ hist[w].connects <= 1
             /\ pc[w] \in {"send", "body", "deliver"} =>
                    hist[w].resolves = 1 /\ hist[w].connects = 1

\* the second call of a Client has returned Ok over the cached send channel
C9_Witness ==
    \E w \in W :
        /\ hist[w].level = Clean
        /\ hist[w].called
        /\ hist[w].had_channel
        /\ pc[w] = "deliver"
        /\ outcome[w].ok

\* C10: every RequestResult of a worker has start <= end, and starts no
\* earlier than the worker's previous RequestResult ended
C10_OrderedStamps ==
    \A w \in W : (pc[w] = "deliver" /\ outcome[w].ok) =>
        /\ outcome[w].start <= outcome[w].end
        /\ duration(outcome[w]) >= 0
        /\ sent[w] # None => sent[w] <= outcome[w].start

\* a worker that has sent a RequestResult returns another from a call that
\* retried and re-stamped start
C10_Witness ==
    \E w \in W :
        /\ pc[w] = "deliver"
        /\ outcome[w].ok
        /\ sent[w] # None
        /\ hist[w].sends >= 2
        /\ outcome[w].start > sent[w]
        /\ outcome[w].end > outcome[w].start

\* the steps of C11: when work() returns Ok the send-channel slot holds the channel, when
\* it returns an error the slot is empty; the slot is empty during the call,
\* the worker's send into the sink leaves it as it is, and a call that finds
\* it empty goes through resolve and connect before it sends
C11_Step ==
    \A w \in W :
        /\ pc'[w] = "deliver" => client'[w].send_request = outcome'[w].ok
        /\ pc'[w] \in InWork => ~client'[w].send_request
        /\ pc[w] = "deliver" => client'[w].send_request = client[w].send_request
        /\ (pc[w] = "call" /\ ~client[w].send_request /\ pc'[w] # "call") =>
                pc'[w] = "lookup1"
        /\ (pc'[w] = "send" /\ ~hist'[w].had_channel) =>
                (hist'[w].resolves >= 1 /\ hist'[w].connects >= 1)

\* C11: every step keeps the send-channel slot as C11_Step says: filled by a
\* call that returns Ok, empty after a call that returns an error
C11_SlotAfterWork == [][C11_Step]_vars

\* a call that began with the cached send channel has timed out, and the slot
\* is empty
C11_Witness ==
    \E w \in W :
        /\ pc[w] = "deliver"
        /\ outcome[w].kind = "timeout"
        /\ hist[w].had_channel
        /\ ~client[w].send_request

\* the counters of the call of worker w are those of a call that returns
\* at once: one send per retry and the first, one connect and one resolve per
\* retry and, without a cached channel, the first
Straight(h, c) ==
    /\ h.sends = c.num_retry + 1
    /\ h.connects = c.num_retry + (IF h.had_channel THEN 0 ELSE 1)
    /\ h.resolves = h.connects

\* the steps of C12: a lookup that fails, a connect that fails and a timeout that fires
\* each end the call at once, on the first path and on the retry path, and
\* only a send error leads into the retry path
C12_Step ==
    \A w \in W :
        /\ (pc[w] \in {"lookup1", "lookup2"} /\ pc'[w] # pc[w]) =>
                IF client'[w].resolver
                THEN pc'[w] = (IF pc[w] = "lookup1" THEN "connect1" ELSE "connect2")
                ELSE /\ pc'[w] = "deliver"
                     /\ outcome'[w].kind = "resolve"
                     /\ hist'[w].sends = hist[w].sends
                     /\ hist'[w].connects = hist[w].connects
        /\ (pc[w] \in {"connect1", "connect2"} /\ pc'[w] # pc[w]) =>
                \/ pc'[w] = "send"
                \/ /\ pc'[w] = "deliver"
                   /\ outcome'[w].kind \in {"connect", "request"}
                   /\ hist'[w].sends = hist[w].sends
                   /\ hist'[w].resolves = hist[w].resolves
        /\ (pc'[w] = "deliver" /\ pc[w] # "deliver" /\ outcome'[w].kind = "timeout") =>
                /\ pc[w] = "send"
                /\ Straight(hist'[w], call'[w])
                /\ hist'[w].sends = hist[w].sends
        /\ (pc'[w] = "lookup2" /\ pc[w] # "lookup2") =>
                (pc[w] = "send" /\ ~Surface(call[w].num_retry))

\* C12: every step is as C12_Step says: only a send error is retried, a
\* resolve error, a connect error and a timeout return at once
C12_OnlySendRetried == [][C12_Step]_vars

\* a connect on the retry path has failed and the call has returned its error
\* after the one send
C12_Witness ==
    \E w \in W :
        /\ pc[w] = "deliver"
        /\ outcome[w].kind = "connect"
        /\ hist[w].sends = 1
        /\ hist[w].connects = 2

\* C13: start is stamped at the instant the request of the attempt is
\* submitted: no resolve and no connect, and so no time, lies between the
\* stamp and the submission
C13_StartAtSubmission ==
    \A w \in W : pc[w] \in {"send", "body"} => call[w].start = call[w].attempt_at

\* the steps of C18: a lookup leaves the resolver in its slot exactly when it
\* succeeded, no other step of the Client touches the slot, and a lookup
\* finds the slot empty (and constructs a resolver) only as the first lookup
\* of the Client or after a step of the Client has failed
C18_Step ==
    \A w \in W :
        /\ (pc[w] \in {"lookup1", "lookup2"} /\ pc'[w] # pc[w]) =>
                client'[w].resolver = (pc'[w] \in {"connect1", "connect2"})
        /\ (pc[w] \notin {"new", "lookup1", "lookup2"}) =>
                client'[w].resolver = client[w].resolver
        /\ (pc[w] \in {"lookup1", "lookup2"} /\ NewResolver(client[w])) =>
                \/ ~hist[w].called /\ hist[w].resolves = 0
                \/ hist[w].level = Failed

\* C18: every step treats the resolver slot as C18_Step says: the resolver
\* is cached by a lookup that succeeds and dropped by one that fails
C18_ResolverCached == [][C18_Step]_vars

\* a lookup that follows a lookup that succeeded has begun with the resolver
\* in its slot
C18_Witness ==
    \E w \in W :
        /\ pc[w] = "lookup2"
        /\ ~hist[w].had_channel
        /\ hist[w].resolves = 1
        /\ ~NewResolver(client[w])

\* C19: the timeout fires no earlier than the full timeout after the send
\* attempt it belongs to was submitted, whatever time the call has spent
\* before in resolve, connect and earlier attempts
C19_FreshTimeout ==
    \A w \in W : (pc[w] = "deliver" /\ outcome[w].kind = "timeout") =>
        /\ now >= call[w].attempt_at + cfg.timeout
        /\ call[w].attempt_at >= call[w].start

\* a call has returned Timeout more than the timeout after it was started
C19_Witness ==
    \E w \in W :
        /\ pc[w] = "deliver"
        /\ outcome[w].kind = "timeout"
        /\ now > call[w].start + cfg.timeout
        /\ now = call[w].attempt_at + cfg.timeout

\* the dispatches whose workers take tokens out of a queue
QueueModes == {"work", "work_with_qps", "work_until_with_qps"}

\* the tokens put into the queue so far: by the loop of lines 211-213, or by
\* the pacer
Enqueued == IF cfg.mode = "work" THEN cfg.n_tasks ELSE emitted.n

Blocked == gen.pc = "send" /\ RxAlive /\ queue >= cfg.qps

\* C14: in work_until_with_qps the pacer is never left blocked in its send on
\* the full queue with no worker in its loop to take a token out, so that the
\* awaited pacer handle completes and the dispatch returns
C14_PacerNeverStuck ==
    cfg.mode = "work_until_with_qps" =>
        ~(Blocked /\ \A w \in W : pc[w] = "done")

\* worker v waits in rx.recv() for a token on the empty queue of a pacer that
\* sleeps in delay_until up to a later instant
Waiting(v) == pc[v] = "loop" /\ queue = 0 /\ gen.pc = "delay" /\ now < gen.target

\* C15: in a paced mode, while a worker waits for a token on the empty queue
\* every other worker whose work() call is in progress can take its next step
C15_Independent ==
    \A w \in W :
        (pc[w] \in InWork /\ \E v \in W \ {w} : Waiting(v)) =>
            ENABLED ClientNext(w)

\* C16: in work_until_with_qps the queue never holds more than qps tokens,
\* and every token the pacer has sent is in the queue or was dequeued
C16_QueueBounded ==
    cfg.mode = "work_until_with_qps" =>
        /\ queue <= cfg.qps
        /\ dispatch # "returned" => emitted.n = stats.dequeued + queue

\* the queue is full again after the pacer has sent one token more than the
\* queue holds: its send went through when a worker had dequeued a token
C16_Witness ==
    /\ cfg.mode = "work_until_with_qps"
    /\ cfg.n_workers >= 1
    /\ queue = cfg.qps
    /\ emitted.n = cfg.qps + 1
    /\ stats.dequeued = 1

====
